---- MODULE Spec2Model ----
(***************************************************************************)
(* GRC Supplier Finder (src/main.py): the spreadsheet normaliser           *)
(* parse_pivot_rules and the Streamlit script that filters the normalised  *)
(* table by the sidebar selections and aggregates it by supplier.          *)
(*                                                                         *)
(* Text is a sequence of code points, so that strip, the case-insensitive  *)
(* search, str comparison and join are computed as Python computes them.   *)
(* A cell of a DataFrame is <<kind, payload>>: missing (NaN), text, or an  *)
(* integer number.  Row positions (iloc) are 1-based here, index labels    *)
(* keep pandas' 0-based values.                                            *)
(***************************************************************************)
EXTENDS Integers, Sequences, FiniteSets, TLC

VARIABLES
    df_raw,                 \* pd.read_excel(..., header=None): the raw grid
    phase,                  \* "start" | "parsed" | "running" | "failed"
    raised,                 \* "" or the exception parse_pivot_rules raised
    header_row_idx,         \* local of parse_pivot_rules (None before/without a hit)
    df_filled,              \* local df of parse_pivot_rules after the ffill loop (line 38)
    df,                     \* the table parse_pivot_rules returned (load_data's cache)
    session_state,          \* st.session_state: the five widget keys
    user_strategic_answers, \* dict built at lines 119-129
    filtered_df,            \* line 179
    agg_branch,             \* which branch of line 182 assigned aggregated_df
    aggregated_df,          \* lines 185-206: [columns, rows]
    display,                \* which of st.info / st.warning / st.success ran
    shown,                  \* the table handed to st.dataframe, or NoTable
    last_event,             \* the handler that ran last
    prev_active             \* whether reset_filters, when it ran last, found a predicate active

vars == <<df_raw, phase, raised, header_row_idx, df_filled, df, session_state,
          user_strategic_answers, filtered_df, agg_branch, aggregated_df,
          display, shown, last_event, prev_active>>

-----------------------------------------------------------------------------
(* Bounds of the explored inputs.                                          *)

\* rows of a raw grid handed to parse_pivot_rules on its own
MaxRows == 4

\* data rows below the header in the workbook the application loads
MaxAppRows == 3

-----------------------------------------------------------------------------
(* Text constants of the source, as code points.                           *)

\* "Segment"
L_Segment == <<83,101,103,109,101,110,116>>

\* "Modules(tags)"
L_Modules == <<77,111,100,117,108,101,115,40,116,97,103,115,41>>

\* "Hosting"
L_Hosting == <<72,111,115,116,105,110,103>>

\* "Orientation"
L_Orientation == <<79,114,105,101,110,116,97,116,105,111,110>>

\* "Regulatory focus (typical)"
L_Regulatory == <<82,101,103,117,108,97,116,111,114,121,32,102,111,99,117,115,32,
                  40,116,121,112,105,99,97,108,41>>

\* "AU support"
L_AU == <<65,85,32,115,117,112,112,111,114,116>>

\* "Impl"
L_Impl == <<73,109,112,108>>

\* "Proj$"
L_Proj == <<80,114,111,106,36>>

\* "Lic$ (p.a.)"
L_Lic == <<76,105,99,36,32,40,112,46,97,46,41>>

\* "Supplier / Product"
L_Supplier == <<83,117,112,112,108,105,101,114,32,47,32,80,114,111,100,117,99,116>>

\* "Grand Total", the pattern of lines 46-47
GrandTotal == <<71,114,97,110,100,32,84,111,116,97,108>>

\* ", ", the separator of the aggregation lambdas
Separator == <<44,32>>

\* the column names, used as the keys of a row
supplier_col == "Supplier / Product"

key_cols == <<"Segment", "Modules(tags)", "Hosting", "Orientation",
              "Regulatory focus (typical)", "AU support", "Impl", "Proj$",
              "Lic$ (p.a.)">>

detail_cols == <<"AU support", "Impl", "Proj$", "Lic$ (p.a.)">>

Columns == {key_cols[i] : i \in 1..Len(key_cols)} \cup {supplier_col}

\* the text of a column name
Label(name) ==
    CASE name = "Segment" -> L_Segment
      [] name = "Modules(tags)" -> L_Modules
      [] name = "Hosting" -> L_Hosting
      [] name = "Orientation" -> L_Orientation
      [] name = "Regulatory focus (typical)" -> L_Regulatory
      [] name = "AU support" -> L_AU
      [] name = "Impl" -> L_Impl
      [] name = "Proj$" -> L_Proj
      [] name = "Lic$ (p.a.)" -> L_Lic
      [] name = "Supplier / Product" -> L_Supplier

-----------------------------------------------------------------------------
(* Cells and the string operations of Python and pandas.                   *)

NaN == <<"nan", <<>>>>

Txt(s) == <<"str", s>>

Num(n) == <<"num", <<n>>>>

isna(c) == c[1] = "nan"

\* Python's None for header_row_idx
None == -1

\* the value of a variable that holds no table
NoTable == <<"no table">>

\* str.isspace for the ASCII range: tab, LF, VT, FF, CR, FS..US, space
IsSpace(ch) == ch \in (9..13) \cup (28..32)

RECURSIVE lstrip(_)
lstrip(s) ==
    IF s = <<>> THEN s
    ELSE IF IsSpace(Head(s)) THEN lstrip(Tail(s)) ELSE s

RECURSIVE rstrip(_)
rstrip(s) ==
    IF s = <<>> THEN s
    ELSE IF IsSpace(s[Len(s)]) THEN rstrip(SubSeq(s, 1, Len(s) - 1)) ELSE s

\* str.strip()
strip(s) == rstrip(lstrip(s))

\* Series.str.strip / Index.str.strip on one element: not a str gives NaN
str_strip(c) == IF c[1] = "str" THEN Txt(strip(c[2])) ELSE NaN

\* str(n) of a non-negative int
RECURSIVE Digits(_)
Digits(n) ==
    IF n < 10 THEN <<48 + n>> ELSE Digits(n \div 10) \o <<48 + (n % 10)>>

\* Series.astype(str) on one element
astype_str(c) ==
    CASE c[1] = "str" -> c
      [] c[1] = "num" -> Txt(Digits(c[2][1]))
      [] c[1] = "nan" -> Txt(<<110,97,110>>)

\* re.IGNORECASE on the ASCII letters
Lower(ch) == IF ch \in 65..90 THEN ch + 32 ELSE ch

\* re.search(pat, s, re.IGNORECASE) for a pattern without metacharacters
SearchIgnoreCase(s, pat) ==
    \E i \in 1..(Len(s) - Len(pat) + 1) :
        \A k \in 1..Len(pat) : Lower(s[i + k - 1]) = Lower(pat[k])

\* str_contains with the search left case-sensitive
str_contains_cased(c, pat) ==
    /\ c[1] = "str"
    /\ \E i \in 1..(Len(c[2]) - Len(pat) + 1) :
          SubSeq(c[2], i, i + Len(pat) - 1) = pat

\* Series.str.contains(pat, case=False, na=False) on one element
str_contains(c, pat) ==
    IF c[1] = "str" THEN SearchIgnoreCase(c[2], pat) ELSE FALSE

\* Python's < on str: by code point, a proper prefix first
RECURSIVE StrLess(_, _)
StrLess(a, b) ==
    IF b = <<>> THEN FALSE
    ELSE IF a = <<>> THEN TRUE
    ELSE IF Head(a) # Head(b) THEN Head(a) < Head(b)
    ELSE StrLess(Tail(a), Tail(b))

\* sorted(S) for a set of str: repeatedly the least element
RECURSIVE sorted(_)
sorted(S) ==
    IF S = {} THEN <<>>
    ELSE LET m == CHOOSE x \in S : \A y \in S \ {x} : StrLess(x, y)
         IN <<m>> \o sorted(S \ {m})

\* sep.join(list)
RECURSIVE join(_, _)
join(sep, l) ==
    IF l = <<>> THEN <<>>
    ELSE IF Len(l) = 1 THEN l[1]
    ELSE l[1] \o sep \o join(sep, Tail(l))

Range(f) == {f[i] : i \in DOMAIN f}

-----------------------------------------------------------------------------
(* parse_pivot_rules                                                       *)

\* "Segment" in row.values and "Supplier / Product" in row.values
IsHeaderRow(row) ==
    /\ \E p \in 1..Len(row) : row[p] = Txt(L_Segment)
    /\ \E p \in 1..Len(row) : row[p] = Txt(L_Supplier)

\* find_header without the break: the last hit stays in header_row_idx
find_header_last(raw, i) ==
    LET hits == {j \in i..Len(raw) : IsHeaderRow(raw[j])}
    IN IF hits = {} THEN None
       ELSE (CHOOSE j \in hits : \A m \in hits : m <= j) - 1

\* the loop of lines 10-13 from row position i on: the index label of the
\* first hit, None when the rows run out
RECURSIVE find_header(_, _)
find_header(raw, i) ==
    IF i > Len(raw) THEN None
    ELSE IF IsHeaderRow(raw[i]) THEN i - 1
    ELSE find_header(raw, i + 1)

\* df.columns after lines 19-20: the header's cells, stripped
columns_of(hdr) == [p \in 1..Len(hdr) |-> str_strip(hdr[p])]

col_pos(cols, name) == {p \in 1..Len(cols) : cols[p] = Txt(Label(name))}

\* df_raw.iloc[header_row_idx + 1:] under the header's column names; every
\* row keeps its index label
slice_data(raw, h) ==
    LET cols == columns_of(raw[h + 1]) \o <<>>
    IN [k \in 1..(Len(raw) - h - 1) |->
          [idx |-> h + k,
           row |-> [c \in Columns |->
                      raw[h + 1 + k][CHOOSE p \in col_pos(cols, c) : TRUE]]]]

\* df[col].fillna(method='ffill'): one pass carrying the last value seen
RECURSIVE ffill_scan(_, _, _, _)
ffill_scan(d, col, i, last) ==
    IF i > Len(d) THEN d
    ELSE LET v == IF isna(d[i].row[col]) THEN last ELSE d[i].row[col]
         IN ffill_scan([d EXCEPT ![i].row[col] = v], col, i + 1, v)

\* fillna_ffill that copies from the row directly above only
fillna_ffill_one_row(d, col) ==
    [i \in 1..Len(d) |->
       IF i > 1 /\ isna(d[i].row[col])
       THEN [d[i] EXCEPT !.row[col] = d[i - 1].row[col]]
       ELSE d[i]]

fillna_ffill(d, col) == ffill_scan(d, col, 1, NaN)

\* the loop of lines 37-38 over key_cols[k..]
RECURSIVE ffill_keys(_, _)
ffill_keys(d, k) ==
    IF k > Len(key_cols) THEN d
    ELSE ffill_keys(fillna_ffill(d, key_cols[k]), k + 1)

\* line 41
dropna_supplier(d) == SelectSeq(d, LAMBDA r : ~isna(r.row[supplier_col]))

\* line 42
strip_supplier(d) ==
    [i \in 1..Len(d) |->
       [d[i] EXCEPT !.row[supplier_col] = str_strip(astype_str(@))]]

\* line 43
drop_empty_supplier(d) ==
    SelectSeq(d, LAMBDA r : r.row[supplier_col] # Txt(<<>>))

\* line 46
drop_total_supplier(d) ==
    SelectSeq(d, LAMBDA r : ~str_contains(r.row[supplier_col], GrandTotal))

\* line 47
drop_total_segment(d) ==
    SelectSeq(d, LAMBDA r : ~str_contains(r.row["Segment"], GrandTotal))

\* line 49
reset_index(d) == [i \in 1..Len(d) |-> [idx |-> i - 1, row |-> d[i].row]]

\* line 50: the first of equal rows stays, with its index label
RECURSIVE drop_duplicates_from(_, _)
drop_duplicates_from(d, i) ==
    IF i > Len(d) THEN <<>>
    ELSE (IF \E j \in 1..(i - 1) : d[j].row = d[i].row THEN <<>> ELSE <<d[i]>>)
         \o drop_duplicates_from(d, i + 1)

\* drop_duplicates left out
keep_duplicates(d) == d

drop_duplicates(d) == drop_duplicates_from(d, 1)

\* lines 40-50 on the forward-filled table
clean_rows(d) ==
    drop_duplicates(reset_index(drop_total_segment(drop_total_supplier(
        drop_empty_supplier(strip_supplier(dropna_supplier(d)))))))

\* the whole call: what it raised, its locals, and the table it returned
parse_pivot_rules(raw) ==
    LET h == find_header(raw, 1)
    IN IF h = None
       THEN [raised |-> "ValueError", header_row_idx |-> None,
             filled |-> NoTable, df |-> NoTable]
       ELSE IF \E c \in Columns : col_pos(columns_of(raw[h + 1]), c) = {}
       THEN [raised |-> "KeyError", header_row_idx |-> h,
             filled |-> NoTable, df |-> NoTable]
       ELSE LET filled == ffill_keys(slice_data(raw, h), 1)
            IN [raised |-> "", header_row_idx |-> h,
                filled |-> filled, df |-> clean_rows(filled)]

-----------------------------------------------------------------------------
(* The script below load_data(): session state, widgets, filter, display.  *)

widget_keys == <<"seg_widget", "mod_widget", "host_widget", "orient_widget",
                 "reg_widget">>

\* the empty str, as a selectbox value
EmptyStr == Txt(<<>>)

\* lines 68-73 on a session that holds none of the keys
InitSession ==
    [k \in Range(widget_keys) |-> IF k = "mod_widget" THEN <<>> ELSE EmptyStr]

\* reset_filters without the multiselect's line
reset_filters_singles_only(ss) ==
    [ss EXCEPT !.seg_widget = EmptyStr, !.host_widget = EmptyStr,
               !.orient_widget = EmptyStr, !.reg_widget = EmptyStr]

\* lines 76-83
reset_filters(ss) ==
    [ss EXCEPT !.seg_widget = EmptyStr, !.mod_widget = <<>>,
               !.host_widget = EmptyStr, !.orient_widget = EmptyStr,
               !.reg_widget = EmptyStr]

\* sorted(df[col].dropna().unique()) for a column of text
sorted_unique(d, col) ==
    LET S == {d[i].row[col][2] : i \in {j \in 1..Len(d) : ~isna(d[j].row[col])}}
        l == sorted(S)
    IN [i \in 1..Len(l) |-> Txt(l[i])]

\* lines 99-103
seg_opts(d) == <<EmptyStr>> \o sorted_unique(d, "Segment")

mod_opts(d) == sorted_unique(d, "Modules(tags)")

host_opts(d) == <<EmptyStr>> \o sorted_unique(d, "Hosting")

orient_opts(d) == <<EmptyStr>> \o sorted_unique(d, "Orientation")

reg_opts(d) == <<EmptyStr>> \o sorted_unique(d, "Regulatory focus (typical)")

\* Python's truth value of a str cell or of a list
Truthy(v) == v # <<>> /\ v # EmptyStr

\* the dict's keys in insertion order, each with the widget it is read from
answer_keys == <<"Segment", "Modules(tags)", "Hosting", "Orientation",
                 "Regulatory focus (typical)">>

widget_of(col) ==
    CASE col = "Segment" -> "seg_widget"
      [] col = "Modules(tags)" -> "mod_widget"
      [] col = "Hosting" -> "host_widget"
      [] col = "Orientation" -> "orient_widget"
      [] col = "Regulatory focus (typical)" -> "reg_widget"

\* lines 119-129
build_answers(ss) ==
    [c \in {x \in Range(answer_keys) : Truthy(ss[widget_of(x)])} |->
        ss[widget_of(c)]]

\* filter_step that compares the module with the first selected tag only
filter_step_first_tag(cur, key, value) ==
    IF key = "Modules(tags)"
    THEN IF value # <<>>
         THEN SelectSeq(cur, LAMBDA r : r.row[key] = value[1])
         ELSE cur
    ELSE IF Truthy(value)
         THEN SelectSeq(cur, LAMBDA r : r.row[key] = value)
         ELSE cur

\* one turn of the loop of lines 166-176
filter_step(cur, key, value) ==
    IF key = "Modules(tags)"
    THEN IF value # <<>>
         THEN SelectSeq(cur, LAMBDA r : r.row[key] \in Range(value))
         ELSE cur
    ELSE IF Truthy(value)
         THEN SelectSeq(cur, LAMBDA r : r.row[key] = value)
         ELSE cur

\* the loop of lines 166-176 over the dict's items from the k-th key on
RECURSIVE apply_filters(_, _, _)
apply_filters(cur, answers, k) ==
    IF k > Len(answer_keys) THEN cur
    ELSE IF answer_keys[k] \in DOMAIN answers
         THEN apply_filters(filter_step(cur, answer_keys[k],
                                        answers[answer_keys[k]]), answers, k + 1)
         ELSE apply_filters(cur, answers, k + 1)

\* agg_join without dropna()
agg_join_keep_nan(cells) ==
    Txt(join(Separator, sorted({astype_str(cells[i])[2] : i \in 1..Len(cells)})))

\* lambda x: ", ".join(sorted(set(x.dropna().astype(str)))) on the cells of
\* one group's column
agg_join(cells) ==
    LET kept == {i \in 1..Len(cells) : ~isna(cells[i])}
    IN Txt(join(Separator, sorted({astype_str(cells[i])[2] : i \in kept})))

\* the names of lines 194-199
rename(col) ==
    CASE col = "AU support" -> "AU Support"
      [] col = "Impl" -> "Impl. Time"
      [] col = "Proj$" -> "Proj. Budget"
      [] col = "Lic$ (p.a.)" -> "Lic. Budget (p.a.)"
      [] OTHER -> col

\* the columns of both branches of line 182
agg_columns == <<"Supplier / Product", "AU Support", "Impl. Time",
                 "Proj. Budget", "Lic. Budget (p.a.)">>

\* the rows of one supplier, in table order
group_rows(d, s) == SelectSeq(d, LAMBDA r : r.row[supplier_col] = Txt(s))

\* lines 185-202: one row per group key, the keys in sorted order
groupby_agg(d) ==
    LET keys == sorted({d[i].row[supplier_col][2] : i \in 1..Len(d)})
    IN [g \in 1..Len(keys) |->
          LET grp == group_rows(d, keys[g])
          IN [c \in Range(agg_columns) |->
                IF c = supplier_col THEN Txt(keys[g])
                ELSE LET src == CHOOSE x \in Range(detail_cols) : rename(x) = c
                     IN agg_join([i \in 1..Len(grp) |-> grp[i].row[src]])]]

\* aggregate whose empty frame keeps the sheet's column names
aggregate_unrenamed_empty(d) ==
    IF d # <<>>
    THEN [branch |-> "groupby",
          table |-> [columns |-> agg_columns, rows |-> groupby_agg(d)]]
    ELSE [branch |-> "empty",
          table |-> [columns |-> <<supplier_col>> \o detail_cols, rows |-> <<>>]]

\* lines 182-206
aggregate(d) ==
    IF d # <<>>
    THEN [branch |-> "groupby",
          table |-> [columns |-> agg_columns, rows |-> groupby_agg(d)]]
    ELSE [branch |-> "empty",
          table |-> [columns |-> agg_columns, rows |-> <<>>]]

\* show without the test of the empty dict
show_without_prompt(answers, agg) ==
    IF agg.rows = <<>> THEN [display |-> "warning", shown |-> NoTable]
    ELSE [display |-> "success", shown |-> agg]

\* lines 212-220
show(answers, agg) ==
    IF DOMAIN answers = {} THEN [display |-> "info", shown |-> NoTable]
    ELSE IF agg.rows = <<>> THEN [display |-> "warning", shown |-> NoTable]
    ELSE [display |-> "success", shown |-> agg]

\* one run of the script below load_data (lines 116-220)
run_pass(d, ss) ==
    LET answers == build_answers(ss)
        filtered == apply_filters(d, answers, 1)
        agg == aggregate(filtered)
        out == show(answers, agg.table)
    IN [user_strategic_answers |-> answers, filtered_df |-> filtered,
        agg_branch |-> agg.branch, aggregated_df |-> agg.table,
        display |-> out.display, shown |-> out.shown]

-----------------------------------------------------------------------------
(* The explored workbooks.                                                 *)

\* a raw row by its ten cells, in the column order of the header rows below
RawRow(seg, mod, host, ori, reg, sup, au, impl, proj, lic) ==
    <<seg, mod, host, ori, reg, sup, au, impl, proj, lic>>

\* the header row; its "Hosting" label is padded, " Hosting "
HeaderRow ==
    RawRow(Txt(L_Segment), Txt(L_Modules), Txt(<<32>> \o L_Hosting \o <<32>>),
           Txt(L_Orientation), Txt(L_Regulatory), Txt(L_Supplier), Txt(L_AU),
           Txt(L_Impl), Txt(L_Proj), Txt(L_Lic))

\* a title row whose supplier label is padded, so it holds one marker only
NearHeaderRow == [HeaderRow EXCEPT ![6] = Txt(<<32>> \o L_Supplier)]

\* data rows: "A","M","H","O","R","S","Y","I",7,"L"; a merged-cell row with
\* supplier " S"; a row without supplier; "Grand total A" as segment;
\* "x GRAND TOTAL" as supplier; a whitespace supplier
ParseDataRows ==
    { RawRow(Txt(<<65>>), Txt(<<77>>), Txt(<<72>>), Txt(<<79>>), Txt(<<82>>),
             Txt(<<83>>), Txt(<<89>>), Txt(<<73>>), Num(7), Txt(<<76>>)),
      RawRow(NaN, NaN, NaN, NaN, NaN, Txt(<<32,83>>), NaN, NaN, NaN, NaN),
      RawRow(Txt(<<66>>), NaN, NaN, NaN, NaN, NaN, Txt(<<78>>), NaN, NaN, NaN),
      RawRow(Txt(<<71,114,97,110,100,32,116,111,116,97,108,32,65>>), NaN, NaN,
             NaN, NaN, Txt(<<84>>), NaN, NaN, NaN, NaN),
      RawRow(NaN, NaN, NaN, NaN, NaN,
             Txt(<<120,32,71,82,65,78,68,32,84,79,84,65,76>>), NaN, NaN, NaN, NaN),
      RawRow(NaN, NaN, NaN, NaN, NaN, Txt(<<32>>), NaN, NaN, NaN, NaN) }

ParseRows == {HeaderRow, NearHeaderRow} \cup ParseDataRows

\* every grid of at most MaxRows rows
ParseGrids == UNION {[1..n -> ParseRows] : n \in 0..MaxRows}

\* The explored sheets hold text or nothing in the grouping and supplier
\* columns, and text or integers in the detail columns.
\* data rows of the application's workbook: Fin/Risk/SaaS "Acme"; a
\* merged-cell Audit row of " Acme"; Gov/Risk/OnPrem "Zen"; Gov/Audit/SaaS "Acme"
AppDataRows ==
    { RawRow(Txt(<<70,105,110>>), Txt(<<82,105,115,107>>), Txt(<<83,97,97,83>>),
             Txt(<<79>>), Txt(<<82>>), Txt(<<65,99,109,101>>),
             Txt(<<89,101,115>>), Txt(<<51,109>>), Num(7), Txt(<<76>>)),
      RawRow(NaN, Txt(<<65,117,100,105,116>>), NaN, NaN, NaN,
             Txt(<<32,65,99,109,101>>), Txt(<<89,101,115>>), NaN,
             Txt(<<55>>), NaN),
      RawRow(Txt(<<71,111,118>>), Txt(<<82,105,115,107>>),
             Txt(<<79,110,80,114,101,109>>), NaN, NaN, Txt(<<90,101,110>>),
             Txt(<<78,111>>), Txt(<<32>>), Num(10), NaN),
      RawRow(Txt(<<71,111,118>>), Txt(<<65,117,100,105,116>>),
             Txt(<<83,97,97,83>>), NaN, NaN, Txt(<<65,99,109,101>>),
             Txt(<<78,111>>), NaN, Num(10), Txt(<<76>>)) }

\* the header row and at most MaxAppRows data rows, or a sheet without header
AppGrids ==
    {<<HeaderRow>> \o d : d \in UNION {[1..n -> AppDataRows] : n \in 0..MaxAppRows}}
    \cup {<<NearHeaderRow>>}

-----------------------------------------------------------------------------
(* The state machines.                                                     *)

NoSession == <<"no session">>

NoAnswers == <<"no answers">>

NotStarted ==
    /\ phase = "start"
    /\ raised = ""
    /\ header_row_idx = None
    /\ df_filled = NoTable
    /\ df = NoTable
    /\ session_state = NoSession
    /\ user_strategic_answers = NoAnswers
    /\ filtered_df = NoTable
    /\ agg_branch = "none"
    /\ aggregated_df = NoTable
    /\ display = "none"
    /\ shown = NoTable
    /\ last_event = "none"
    /\ prev_active = FALSE

ScriptIdle ==
    UNCHANGED <<session_state, user_strategic_answers, filtered_df, agg_branch,
                aggregated_df, display, shown, last_event, prev_active>>

\* the assignments of one script run over table d and session ss
Rerun(d, ss) ==
    LET out == run_pass(d, ss)
    IN /\ session_state' = ss
       /\ user_strategic_answers' = out.user_strategic_answers
       /\ filtered_df' = out.filtered_df
       /\ agg_branch' = out.agg_branch
       /\ aggregated_df' = out.aggregated_df
       /\ display' = out.display
       /\ shown' = out.shown

\* parse_pivot_rules(df_raw) returns
ParseReturns ==
    /\ phase = "start"
    /\ LET r == parse_pivot_rules(df_raw)
       IN /\ r.raised = ""
          /\ phase' = "parsed"
          /\ raised' = ""
          /\ header_row_idx' = r.header_row_idx
          /\ df_filled' = r.filled
          /\ df' = r.df
    /\ UNCHANGED df_raw
    /\ ScriptIdle

\* parse_pivot_rules(df_raw) raises
ParseRaises ==
    /\ phase = "start"
    /\ LET r == parse_pivot_rules(df_raw)
       IN /\ r.raised # ""
          /\ phase' = "parsed"
          /\ raised' = r.raised
          /\ header_row_idx' = r.header_row_idx
          /\ df_filled' = r.filled
          /\ df' = r.df
    /\ UNCHANGED df_raw
    /\ ScriptIdle

InitParse == df_raw \in ParseGrids /\ NotStarted

NextParse == ParseReturns \/ ParseRaises

SpecParse == InitParse /\ [][NextParse]_vars

\* the first run of the script: load_data(), lines 65-73, then lines 85-220
FirstRun ==
    /\ phase = "start"
    /\ LET r == parse_pivot_rules(df_raw)
       IN /\ r.raised = ""
          /\ phase' = "running"
          /\ raised' = ""
          /\ header_row_idx' = r.header_row_idx
          /\ df_filled' = r.filled
          /\ df' = r.df
          /\ Rerun(r.df, InitSession)
    /\ last_event' = "first_run"
    /\ prev_active' = FALSE
    /\ UNCHANGED df_raw

\* load_data() raises: the script stops at line 60
StartFails ==
    /\ phase = "start"
    /\ LET r == parse_pivot_rules(df_raw)
       IN /\ r.raised # ""
          /\ phase' = "failed"
          /\ raised' = r.raised
          /\ header_row_idx' = r.header_row_idx
          /\ df_filled' = r.filled
          /\ df' = r.df
    /\ UNCHANGED df_raw
    /\ ScriptIdle

Cached == UNCHANGED <<df_raw, phase, raised, header_row_idx, df_filled, df>>

Active == DOMAIN user_strategic_answers # {}

\* a selectbox changes the value under its key, and the script reruns
SelectOne(key, opts) ==
    /\ phase = "running"
    /\ \E v \in Range(opts) :
          /\ v # session_state[key]
          /\ Rerun(df, [session_state EXCEPT ![key] = v])
    /\ last_event' = "select"
    /\ prev_active' = FALSE
    /\ Cached

SelectSegment == SelectOne("seg_widget", seg_opts(df))

SelectHosting == SelectOne("host_widget", host_opts(df))

SelectOrientation == SelectOne("orient_widget", orient_opts(df))

SelectRegulatory == SelectOne("reg_widget", reg_opts(df))

\* the multiselect gains an option, appended to its list
AddModule ==
    /\ phase = "running"
    /\ \E m \in Range(mod_opts(df)) \ Range(session_state.mod_widget) :
          Rerun(df, [session_state EXCEPT !.mod_widget = Append(@, m)])
    /\ last_event' = "select"
    /\ prev_active' = FALSE
    /\ Cached

\* the multiselect loses one of its options
RemoveModule ==
    /\ phase = "running"
    /\ \E m \in Range(session_state.mod_widget) :
          Rerun(df, [session_state EXCEPT
                        !.mod_widget = SelectSeq(@, LAMBDA x : x # m)])
    /\ last_event' = "select"
    /\ prev_active' = FALSE
    /\ Cached

\* the button: on_click=reset_filters runs, and the script reruns
ClickReset ==
    /\ phase = "running"
    /\ Rerun(df, reset_filters(session_state))
    /\ last_event' = "reset"
    /\ prev_active' = Active
    /\ Cached

Init == df_raw \in AppGrids /\ NotStarted

Next ==
    \/ FirstRun
    \/ StartFails
    \/ SelectSegment
    \/ SelectHosting
    \/ SelectOrientation
    \/ SelectRegulatory
    \/ AddModule
    \/ RemoveModule
    \/ ClickReset

Spec == Init /\ [][Next]_vars

-----------------------------------------------------------------------------
(* Properties of parse_pivot_rules, checked under SpecParse.               *)

Returned == phase = "parsed" /\ raised = ""

\* the row as line 42 leaves it
Trimmed(row) == [row EXCEPT ![supplier_col] = str_strip(astype_str(@))]

\* "grand total"
LowerTotal == <<103,114,97,110,100,32,116,111,116,97,108>>

\* the cell is text that holds "grand total" in some letter case
HoldsTotal(c) ==
    /\ c[1] = "str"
    /\ \E i \in 1..Len(c[2]) :
          /\ i + Len(LowerTotal) - 1 <= Len(c[2])
          /\ [k \in 1..Len(LowerTotal) |-> Lower(c[2][i + k - 1])] = LowerTotal

\* the cell is missing, or text that is empty once trimmed
BlankSupplier(c) ==
    c[1] = "nan" \/ (c[1] = "str" /\ \A k \in 1..Len(c[2]) : IsSpace(c[2][k]))

\* C1: a returned table has no row whose supplier is missing or empty after
\* trimming, and no row whose supplier or segment holds "grand total" in any
\* letter case.
C1_NoBlankNoTotal ==
    Returned =>
        \A i \in 1..Len(df) :
            /\ ~BlankSupplier(df[i].row[supplier_col])
            /\ ~HoldsTotal(df[i].row[supplier_col])
            /\ ~HoldsTotal(df[i].row["Segment"])

\* rows of each discarded kind came in, and a row came out
C1_Witness ==
    /\ Returned
    /\ df # <<>>
    /\ \E i \in 1..Len(df_filled) : BlankSupplier(df_filled[i].row[supplier_col])
    /\ \E i \in 1..Len(df_filled) :
          \/ HoldsTotal(df_filled[i].row[supplier_col])
          \/ HoldsTotal(df_filled[i].row["Segment"])

\* the row positions of df_raw that hold both marker labels as whole cells
MarkerRows ==
    {i \in 1..Len(df_raw) :
        Txt(L_Segment) \in Range(df_raw[i]) /\ Txt(L_Supplier) \in Range(df_raw[i])}

FirstMarkerRow == CHOOSE i \in MarkerRows : \A j \in MarkerRows : i <= j

\* the position of a column in the header row at position h
PosOf(h, col) ==
    CHOOSE p \in 1..Len(df_raw[h]) : str_strip(df_raw[h][p]) = Txt(Label(col))

\* C2: the header is the first row that holds both markers as whole cells,
\* the data are the rows strictly after it, and without such a row the call
\* raises and returns no table.
C2_FirstHeaderOrError ==
    phase = "parsed" =>
        IF MarkerRows = {}
        THEN raised = "ValueError" /\ df = NoTable /\ header_row_idx = None
        ELSE /\ header_row_idx = FirstMarkerRow - 1
             /\ raised = "" =>
                  /\ Len(df_filled) = Len(df_raw) - FirstMarkerRow
                  /\ LET p == PosOf(FirstMarkerRow, supplier_col)
                     IN \A k \in 1..Len(df_filled) :
                           /\ df_filled[k].idx = header_row_idx + k
                           /\ df_filled[k].row[supplier_col] =
                                 df_raw[FirstMarkerRow + k][p]
                  /\ Len(df) <= Len(df_filled)

\* rows lead the header, and a second row with both markers follows it
C2_Witness ==
    /\ Returned
    /\ header_row_idx >= 1
    /\ Cardinality(MarkerRows) >= 2
    /\ df # <<>>

\* C7: no two rows of a returned table are equal in every column.
C7_NoDuplicateRows ==
    Returned =>
        \A i \in 1..Len(df) : \A j \in 1..Len(df) :
            i # j => df[i].row # df[j].row

\* two rows that differ in the sheet and are equal once filled and trimmed
C7_Witness ==
    /\ Returned
    /\ \E i \in 1..Len(df_filled) : \E j \in 1..Len(df_filled) :
          /\ i < j
          /\ df_raw[FirstMarkerRow + i] # df_raw[FirstMarkerRow + j]
          /\ df_filled[i].row # df_filled[j].row
          /\ \E k \in 1..Len(df) :
                /\ df[k].row = Trimmed(df_filled[i].row)
                /\ df[k].row = Trimmed(df_filled[j].row)

\* C9: the index of a returned table is 0..n-1 in row order.
C9_DenseIndex ==
    Returned => \A k \in 1..Len(df) : df[k].idx = k - 1

\* the data rows down to the k-th that hold a value at position p, below
\* the header at row position h
Holders(h, p, k) == {j \in 1..k : ~isna(df_raw[h + j][p])}

\* the nearest value at or above the k-th data row at position p
NearestAbove(h, p, k) ==
    LET H == Holders(h, p, k)
    IN IF H = {} THEN NaN
       ELSE df_raw[h + (CHOOSE j \in H : \A m \in H : m <= j)][p]

\* C10: in every key column a missing cell takes the nearest value above it
\* among the data rows, discarded rows included, values stay as they are, a
\* key cell of the returned table is missing only if the column is missing in
\* all data rows down to its own, and a second fill changes nothing.
C10_ForwardFill ==
    Returned =>
        LET h == header_row_idx + 1
        IN /\ \A c \in Range(key_cols) :
                 LET p == PosOf(h, c)
                 IN /\ \A k \in 1..Len(df_filled) :
                          df_filled[k].row[c] = NearestAbove(h, p, k)
                    /\ \A i \in 1..Len(df) :
                          isna(df[i].row[c]) =>
                              \E k \in 1..Len(df_filled) :
                                  /\ df[i].row = Trimmed(df_filled[k].row)
                                  /\ Holders(h, p, k) = {}
           /\ \A i \in 1..Len(df) : \E k \in 1..Len(df_filled) :
                 df[i].row = Trimmed(df_filled[k].row)
           /\ ffill_keys(df_filled, 1) = df_filled

\* a kept row took a value from a row that was discarded for its supplier
C10_Witness ==
    /\ Returned
    /\ LET h == header_row_idx + 1
           ps == PosOf(h, supplier_col)
           pa == PosOf(h, "AU support")
       IN \E j \in 1..Len(df_filled) : \E k \in 1..Len(df_filled) :
             /\ j < k
             /\ isna(df_raw[h + j][ps])
             /\ ~isna(df_raw[h + j][pa])
             /\ isna(df_raw[h + k][pa])
             /\ Holders(h, pa, k) = Holders(h, pa, j)
             /\ \E i \in 1..Len(df) :
                   /\ df[i].row = Trimmed(df_filled[k].row)
                   /\ df[i].row["AU support"] = df_raw[h + j][pa]

-----------------------------------------------------------------------------
(* Properties of the script, checked under Spec.                           *)

Running == phase = "running"

single_cols == {"Segment", "Hosting", "Orientation", "Regulatory focus (typical)"}

\* no selection constrains anything
NothingSelected ==
    /\ session_state.seg_widget = EmptyStr
    /\ session_state.host_widget = EmptyStr
    /\ session_state.orient_widget = EmptyStr
    /\ session_state.reg_widget = EmptyStr
    /\ session_state.mod_widget = <<>>

\* the row satisfies every active predicate
Satisfies(r) ==
    /\ \A c \in single_cols :
          session_state[widget_of(c)] # EmptyStr =>
              r.row[c] = session_state[widget_of(c)]
    /\ session_state.mod_widget # <<>> =>
          \E m \in 1..Len(session_state.mod_widget) :
              r.row["Modules(tags)"] = session_state.mod_widget[m]

\* C3: the rows that survive filtering are exactly the rows that satisfy all
\* active predicates together.
C3_FilterIsConjunction ==
    Running => filtered_df = SelectSeq(df, Satisfies)

\* a single-select and the module set both constrain, rows fall and rows stay
C3_Witness ==
    /\ Running
    /\ session_state.seg_widget # EmptyStr
    /\ Len(session_state.mod_widget) = 2
    /\ filtered_df # <<>>
    /\ Len(filtered_df) < Len(df)

\* the strictly ascending list of the elements of a set of str
Ascending(S) ==
    CHOOSE t \in [1..Cardinality(S) -> S] :
        \A i \in 1..Cardinality(S) : \A j \in 1..Cardinality(S) :
            i < j => StrLess(t[i], t[j])

\* the values as str of a detail column over the filtered rows of a supplier
GroupValues(s, col) ==
    {astype_str(filtered_df[i].row[col])[2] :
        i \in {j \in 1..Len(filtered_df) :
                 /\ filtered_df[j].row[supplier_col] = s
                 /\ ~isna(filtered_df[j].row[col])}}

C5_NeverAggregates ==
    (Running /\ NothingSelected) => agg_branch # "groupby"

\* C5, amended: with no active predicate the pass shows the no-selection
\* prompt and no table, while aggregated_df still holds the aggregation of
\* the whole table.
C5_PromptNotTable ==
    (Running /\ NothingSelected) =>
        /\ display = "info"
        /\ shown = NoTable
        /\ filtered_df = df
        /\ df # <<>> => agg_branch = "groupby" /\ aggregated_df.rows # <<>>

\* nothing is selected over a table with rows
C5_Witness ==
    /\ Running
    /\ NothingSelected
    /\ Len(df) >= 2
    /\ agg_branch = "groupby"

\* C6: after reset_filters the five selections hold their defaults, and the
\* pass that follows gives what a fresh session's first pass gives.
C6_ResetIsFresh ==
    (Running /\ last_event = "reset") =>
        /\ session_state.seg_widget = Txt(<<>>)
        /\ session_state.mod_widget = <<>>
        /\ session_state.host_widget = Txt(<<>>)
        /\ session_state.orient_widget = Txt(<<>>)
        /\ session_state.reg_widget = Txt(<<>>)
        /\ display = "info"
        /\ LET fresh == run_pass(df, InitSession)
           IN /\ user_strategic_answers = fresh.user_strategic_answers
              /\ filtered_df = fresh.filtered_df
              /\ aggregated_df = fresh.aggregated_df
              /\ display = fresh.display
              /\ shown = fresh.shown

\* the reset came with predicates active
C6_Witness ==
    /\ Running
    /\ last_event = "reset"
    /\ prev_active
    /\ df # <<>>

====
